---- MODULE Spec2Model ----
(***************************************************************************)
(* A model of wsi-web-clip: the WSIHandler of src/wsi_handler.py (the      *)
(* handle cache, level selection, region read and resize) and the region   *)
(* routes of src/app.py that serve it on request threads.                  *)
(*                                                                         *)
(* Numbers.  A level downsample is a Python float, that is a dyadic        *)
(* rational; it is written <<n, d>> for n/d with d a power of two.         *)
(* Comparisons and floor divisions of such values are exact in binary64    *)
(* at the magnitudes used here.  The product int(size * scale) of the      *)
(* resize step is NOT exact in binary64 (49 * (1/49) < 1): FloatMulInt     *)
(* computes it as IEEE-754 round-to-nearest-even does.                      *)
(***************************************************************************)
EXTENDS Integers, Sequences, FiniteSets, TLC

(***************************************************************************)
(* Bounds of the model.                                                    *)
(***************************************************************************)
\* the largest level-0 width or height of the dense range of requests
MaxDim == 6
\* the largest pixel budget (WSIHandler.max_pixels) tried
MaxPix == 3
\* the largest number of pyramid levels of a slide
MaxLevels == 3
\* the largest downsample factor of a level
MaxDs == 4
\* the number of OpenSlide handles the process may open in one run
MaxOpens == 2
\* the number of request threads of the server
NThreads == 2

Max(a, b) == IF a >= b THEN a ELSE b

(***************************************************************************)
(* Rationals n/d (d > 0) as pairs.                                         *)
(***************************************************************************)
RatLeq(a, b) == a[1] * b[2] <= b[1] * a[2]

\* int(v / q) for an int v >= 0 and a float q = n/d >= 1: the floor.
FloorDiv(v, q) == (v * q[2]) \div q[1]

(***************************************************************************)
(* binary64 arithmetic of the resize step, for ints 0 < p < m, 1 <= a <= m *)
(* (m is the longer read side, p is max_pixels, a is a read side).         *)
(*   scale = p / m         rounded to 53 significant bits                  *)
(*   int(a * scale)        the product rounded again, then truncated       *)
(***************************************************************************)
RECURSIVE Pow2(_)
Pow2(k) == IF k = 0 THEN 1 ELSE 2 * Pow2(k - 1)

\* (v * 2^k) mod m, by k doublings
RECURSIVE ShiftMod(_, _, _)
ShiftMod(v, k, m) == IF k = 0 THEN v % m ELSE ShiftMod((2 * v) % m, k - 1, m)

\* the least e with p * 2^e >= m: p/m lies in [2^-e, 2^-(e-1))
RECURSIVE BinExp(_, _)
BinExp(p, m) == IF p >= m THEN 0 ELSE 1 + BinExp(2 * p, m)

\* the least j with q <= 2^(j+1), j >= -1: the doubles just below q are
\* spaced 2^(j-52) apart
RECURSIVE BelowExp(_)
BelowExp(q) == IF q <= 1 THEN -1 ELSE 1 + BelowExp((q + 1) \div 2)

\* int(a * (p / m)) in binary64.  With K = 52 + e the quotient p/m is
\* rounded to a multiple of 2^-K; r is the remainder of p * 2^K by m, so
\* the quotient was rounded DOWN by r / (m * 2^K) when 0 < 2r < m.  The
\* product a * scale then falls short of the exact integer q = a*p/m by
\* D = q*r / (p * 2^K); it rounds to the double below q, and truncates to
\* q - 1, exactly when D exceeds half the spacing below q, that is when
\* 2*q*r > p * 2^(e+j).  In every other case the truncation is the exact
\* floor (a remainder of a*p by m is at least 1/m away from an integer).
FloatMulInt(a, p, m) ==
    LET q == (a * p) \div m
        e == BinExp(p, m)
        r == ShiftMod(p, 52 + e, m)
        j == BelowExp(q)
        short == /\ (a * p) % m = 0
                 /\ q >= 1
                 /\ r > 0
                 /\ 2 * r < m
                 /\ 2 * q * r > p * Pow2(e + j)
    IN  IF short THEN q - 1 ELSE q

(***************************************************************************)
(* WSIHandler: the pure part of get_region.                                *)
(***************************************************************************)
\* _calculate_best_level: max(region_width, region_height) / max_pixels
_calculate_best_level(region_width, region_height, max_pixels) ==
    <<Max(region_width, region_height), max_pixels>>

\* the scan of get_region: levels are 0-based, tbl[i + 1] is level i
RECURSIVE ScanLevels(_, _, _, _)
ScanLevels(tbl, required, i, best) ==
    IF i >= Len(tbl) THEN best
    ELSE IF RatLeq(tbl[i + 1], required)
         THEN ScanLevels(tbl, required, i + 1, i)
         ELSE best

\* mutant: the scan compares with < where the code has <=
RECURSIVE ScanLevelsStrict(_, _, _, _)
ScanLevelsStrict(tbl, required, i, best) ==
    IF i >= Len(tbl) THEN best
    ELSE IF RatLeq(tbl[i + 1], required) /\ ~RatLeq(required, tbl[i + 1])
         THEN ScanLevelsStrict(tbl, required, i + 1, i)
         ELSE best

BestLevelStrict(tbl, required) == ScanLevelsStrict(tbl, required, 0, 0)

\* mutant: the first level whose downsample is >= required (the last level
\* when there is none), as the comment above the loop puts it
RECURSIVE ScanLevelsAbove(_, _, _)
ScanLevelsAbove(tbl, required, i) ==
    IF i >= Len(tbl) - 1 THEN Len(tbl) - 1
    ELSE IF RatLeq(required, tbl[i + 1]) THEN i
         ELSE ScanLevelsAbove(tbl, required, i + 1)

BestLevelAbove(tbl, required) == ScanLevelsAbove(tbl, required, 0)

BestLevel(tbl, required) == ScanLevels(tbl, required, 0, 0)

\* the read size at a level: int(width / level_downsample)
ReadSize(v, level_downsample) == FloorDiv(v, level_downsample)

\* mutant: the resize is decided on the shorter side
OutputSizeShortSide(read_width, read_height, max_pixels) ==
    LET m == Max(read_width, read_height)
        n == IF read_width <= read_height THEN read_width ELSE read_height
    IN  IF n > max_pixels
        THEN <<FloatMulInt(read_width, max_pixels, m),
               FloatMulInt(read_height, max_pixels, m)>>
        ELSE <<read_width, read_height>>

\* mutant: the block is always scaled to the budget, also when it is smaller
OutputSizeAlways(read_width, read_height, max_pixels) ==
    LET m == Max(read_width, read_height)
    IN  IF m # max_pixels /\ m > 0
        THEN <<(read_width * max_pixels) \div m, (read_height * max_pixels) \div m>>
        ELSE <<read_width, read_height>>

\* the resize step: the output size of a read_width x read_height block
OutputSize(read_width, read_height, max_pixels) ==
    LET m == Max(read_width, read_height)
    IN  IF m > max_pixels
        THEN <<FloatMulInt(read_width, max_pixels, m),
               FloatMulInt(read_height, max_pixels, m)>>
        ELSE <<read_width, read_height>>


(***************************************************************************)
(* State.                                                                  *)
(*   svs_dir      the slide directory: file name -> what the file holds    *)
(*                (format_ok: OpenSlide can open it; level_downsamples)    *)
(*   max_pixels   WSIHandler.max_pixels                                    *)
(*   slide_cache  WSIHandler._slide_cache: file name -> handle             *)
(*   handles      every OpenSlide object created so far, in order; a       *)
(*                handle is its index                                      *)
(*   save_dir     the files written under save_dir: path -> bytes          *)
(*   pc, req      per request thread: its position and its request         *)
(*   slide        per thread: the handle held (the value of                *)
(*                openslide.OpenSlide(...) before it is stored, then the   *)
(*                local `slide`)                                           *)
(*   loc          per thread: the locals of get_region                     *)
(*   ret          per thread: what the WSIHandler method returned/raised   *)
(*   resp         per thread: the HTTP response of the route               *)
(***************************************************************************)
VARIABLES svs_dir, max_pixels, slide_cache, handles, save_dir,
          pc, req, slide, loc, ret, resp

vars == <<svs_dir, max_pixels, slide_cache, handles, save_dir,
          pc, req, slide, loc, ret, resp>>

Threads == 1..NThreads

One == <<1, 1>>

\* the downsample factors tried: the integers 1..MaxDs and 1.5
DsValues == {<<n, 1>> : n \in 1..MaxDs} \cup {<<3, 2>>}

\* OpenSlide's level_downsamples: level 0 is 1.0, ascending
IsLevelTable(tbl) ==
    /\ Len(tbl) >= 1
    /\ tbl[1] = One
    /\ \A i \in 1..(Len(tbl) - 1) : RatLeq(tbl[i], tbl[i + 1])

SeqsUpTo(S, n) == UNION {[1..k -> S] : k \in 1..n}

LevelTables == {tbl \in SeqsUpTo(DsValues, MaxLevels) : IsLevelTable(tbl)}

\* the level-0 sizes requested: a dense range, and larger sizes at which
\* binary64 rounding of the resize scale shows
Dims == (1..MaxDim) \cup {47, 49}

EmptyMap == [n \in {} |-> 0]

MapPut(f, k, v) == [n \in (DOMAIN f) \cup {k} |-> IF n = k THEN v ELSE f[n]]

Slide(tbl) == [format_ok |-> TRUE, level_downsamples |-> tbl]

\* a file OpenSlide cannot open (not a pyramid image)
BadSlide == [format_ok |-> FALSE, level_downsamples |-> <<One>>]

Params == {"filename", "x", "y", "width", "height", "save_filename"}

NoReq == [kind |-> "none", filename |-> "", given |-> {}, x |-> 0, y |-> 0,
          width |-> 0, height |-> 0, save_filename |-> "",
          client_download |-> FALSE]

NoLoc == [required_downsample |-> <<0, 1>>, best_level |-> -1,
          level_downsample |-> <<0, 1>>,
          read_width |-> -1, read_height |-> -1,
          output_width |-> -1, output_height |-> -1]

NoBytes == [type |-> "none"]

NoRet == [exc |-> "pending", bytes |-> NoBytes, meta |-> <<>>]

NoResp == [status |-> 0, body |-> NoBytes]

\* a region request (GET /api/region, POST /api/save, or a direct call)
RegionReq(kind, f, w, h) ==
    [kind |-> kind, filename |-> f, given |-> Params, x |-> 0, y |-> 0,
     width |-> w, height |-> h, save_filename |-> "out",
     client_download |-> FALSE]

\* GET /api/info/<filename>, GET /api/thumbnail/<filename>
NameReq(kind, f) ==
    [kind |-> kind, filename |-> f, given |-> {"filename"}, x |-> 0, y |-> 0,
     width |-> 0, height |-> 0, save_filename |-> "",
     client_download |-> FALSE]

(***************************************************************************)
(* The external libraries, as far as the program relies on them.           *)
(***************************************************************************)
\* the PNG encoding of the block of file f read at (x, y), level, size
\* rw x rh, resized to ow x oh: a function of exactly these
EncodePNG(f, x, y, level, rw, rh, ow, oh) ==
    [type |-> "png", src |-> f, x |-> x, y |-> y, level |-> level,
     read_size |-> <<rw, rh>>, size |-> <<ow, oh>>]

\* OpenSlide.read_region returns an empty image for a zero size, Image.resize
\* refuses a zero size and PNG has no image with a zero side: a block with a
\* zero side never becomes PNG bytes
Encodable(ow, oh) == ow >= 1 /\ oh >= 1

\* mutant: only the first handle of the process reports every level
LevelDownsamplesFirstOpen(h) ==
    IF h = 1 THEN svs_dir[handles[h].file].level_downsamples ELSE <<One>>

\* the level table an opened handle reports
LevelDownsamples(h) == svs_dir[handles[h].file].level_downsamples

(***************************************************************************)
(* get_region after _get_slide returned: lines 150-183                     *)
(***************************************************************************)
RegionLocals(tbl, width, height, mp) ==
    LET required == _calculate_best_level(width, height, mp)
        best == BestLevel(tbl, required)
        ds == tbl[best + 1]
        rw == ReadSize(width, ds)
        rh == ReadSize(height, ds)
        out == OutputSize(rw, rh, mp)
    IN  [required_downsample |-> required, best_level |-> best,
         level_downsample |-> ds, read_width |-> rw, read_height |-> rh,
         output_width |-> out[1], output_height |-> out[2]]

\* what get_region returns (lines 185-197) or raises
RegionRet(r, l) ==
    IF Encodable(l.output_width, l.output_height)
    THEN [exc |-> "none",
          bytes |-> EncodePNG(r.filename, r.x, r.y, l.best_level,
                              l.read_width, l.read_height,
                              l.output_width, l.output_height),
          meta |-> <<l.best_level, l.level_downsample,
                     <<l.output_width, l.output_height>>>>]
    ELSE [exc |-> "Error", bytes |-> NoBytes, meta |-> <<>>]

(***************************************************************************)
(* The routes of app.py.                                                   *)
(***************************************************************************)
\* the parameter validation of get_region (84-88) and save_region (122-138)
BadRequest(r) ==
    /\ r.kind \in {"region", "save"}
    /\ \/ {"filename", "x", "y", "width", "height"} \ r.given # {}
       \/ r.filename = ""
       \/ r.width = 0
       \/ r.height = 0
       \/ r.kind = "save" /\ ("save_filename" \notin r.given \/ r.save_filename = "")
       \/ r.width <= 0
       \/ r.height <= 0

\* mutant: the route has no except FileNotFoundError clause
ErrorResponseGeneric(exc) == [status |-> 500, body |-> NoBytes]

\* except FileNotFoundError -> 404, except Exception -> 500
ErrorResponse(exc) ==
    [status |-> IF exc = "FileNotFoundError" THEN 404 ELSE 500, body |-> NoBytes]

\* save_region, line 219: append .png unless the name ends with it
PngName(n) == IF n \in {"out.png"} THEN n ELSE "out.png"

Fail(t, exc) ==
    /\ ret' = [ret EXCEPT ![t] = [exc |-> exc, bytes |-> NoBytes, meta |-> <<>>]]
    /\ resp' = [resp EXCEPT ![t] = ErrorResponse(exc)]
    /\ pc' = [pc EXCEPT ![t] = "done"]

(***************************************************************************)
(* Actions.                                                                *)
(***************************************************************************)
InitOf(dirs, pixels) ==
    /\ svs_dir \in dirs
    /\ max_pixels \in pixels
    /\ slide_cache = EmptyMap
    /\ handles = <<>>
    /\ save_dir = EmptyMap
    /\ pc = [t \in Threads |-> "idle"]
    /\ req = [t \in Threads |-> NoReq]
    /\ slide = [t \in Threads |-> 0]
    /\ loc = [t \in Threads |-> NoLoc]
    /\ ret = [t \in Threads |-> NoRet]
    /\ resp = [t \in Threads |-> NoResp]

\* a request arrives on thread t; the route validates its parameters
Request(t, R) ==
    /\ pc[t] = "idle"
    /\ \E r \in R :
         /\ req' = [req EXCEPT ![t] = r]
         /\ IF BadRequest(r)
            THEN /\ resp' = [resp EXCEPT ![t] = [status |-> 400, body |-> NoBytes]]
                 /\ pc' = [pc EXCEPT ![t] = "done"]
            ELSE /\ resp' = resp
                 /\ pc' = [pc EXCEPT ![t] = "check"]
    /\ UNCHANGED <<svs_dir, max_pixels, slide_cache, handles, save_dir, slide, loc, ret>>

\* mutant: the cache lookup never hits
GetSlideCheckMiss(t) ==
    /\ pc[t] = "check"
    /\ pc' = [pc EXCEPT ![t] = "exists"]
    /\ UNCHANGED <<svs_dir, max_pixels, slide_cache, handles, save_dir, req, slide, loc, ret, resp>>

\* _get_slide, line 58: if filename not in self._slide_cache
GetSlideCheck(t) ==
    /\ pc[t] = "check"
    /\ pc' = [pc EXCEPT ![t] = IF req[t].filename \in DOMAIN slide_cache
                                THEN "return" ELSE "exists"]
    /\ UNCHANGED <<svs_dir, max_pixels, slide_cache, handles, save_dir, req, slide, loc, ret, resp>>

\* mutant: a missing name is entered in the cache before the raise
GetSlideExistsCaching(t) ==
    /\ pc[t] = "exists"
    /\ IF req[t].filename \in DOMAIN svs_dir
       THEN /\ pc' = [pc EXCEPT ![t] = "open"]
            /\ UNCHANGED <<ret, resp, slide_cache>>
       ELSE /\ Fail(t, "FileNotFoundError")
            /\ slide_cache' = MapPut(slide_cache, req[t].filename, 0)
    /\ UNCHANGED <<svs_dir, max_pixels, handles, save_dir, req, slide, loc>>

\* _get_slide, lines 59-61: os.path.exists, raise FileNotFoundError
GetSlideExists(t) ==
    /\ pc[t] = "exists"
    /\ IF req[t].filename \in DOMAIN svs_dir
       THEN /\ pc' = [pc EXCEPT ![t] = "open"]
            /\ UNCHANGED <<ret, resp>>
       ELSE Fail(t, "FileNotFoundError")
    /\ UNCHANGED <<svs_dir, max_pixels, slide_cache, handles, save_dir, req, slide, loc>>

\* _get_slide, line 62, right-hand side: openslide.OpenSlide(filepath)
GetSlideOpen(t) ==
    /\ pc[t] = "open"
    /\ Len(handles) < MaxOpens
    /\ IF svs_dir[req[t].filename].format_ok
       THEN /\ handles' = Append(handles, [file |-> req[t].filename, closed |-> FALSE])
            /\ slide' = [slide EXCEPT ![t] = Len(handles) + 1]
            /\ pc' = [pc EXCEPT ![t] = "insert"]
            /\ UNCHANGED <<ret, resp>>
       ELSE /\ Fail(t, "Error")
            /\ UNCHANGED <<handles, slide>>
    /\ UNCHANGED <<svs_dir, max_pixels, slide_cache, save_dir, req, loc>>

\* _get_slide, line 62, the store: self._slide_cache[filename] = ...
GetSlideInsert(t) ==
    /\ pc[t] = "insert"
    /\ slide_cache' = MapPut(slide_cache, req[t].filename, slide[t])
    /\ pc' = [pc EXCEPT ![t] = "return"]
    /\ UNCHANGED <<svs_dir, max_pixels, handles, save_dir, req, slide, loc, ret, resp>>

\* _get_slide, line 64: return self._slide_cache[filename]
GetSlideReturn(t) ==
    /\ pc[t] = "return"
    /\ slide' = [slide EXCEPT ![t] = slide_cache[req[t].filename]]
    /\ pc' = [pc EXCEPT ![t] = IF req[t].kind \in {"region", "save"}
                                THEN "get_region" ELSE req[t].kind]
    /\ UNCHANGED <<svs_dir, max_pixels, slide_cache, handles, save_dir, req, loc, ret, resp>>

\* get_region, lines 150-197, and the route's response (app.py 90-98,
\* 141-154); a server-side save goes on to write the file
GetRegion(t) ==
    /\ pc[t] = "get_region"
    /\ LET r == req[t]
           l == RegionLocals(LevelDownsamples(slide[t]), r.width, r.height, max_pixels)
           v == RegionRet(r, l)
       IN  /\ loc' = [loc EXCEPT ![t] = l]
           /\ ret' = [ret EXCEPT ![t] = v]
           /\ IF v.exc # "none"
              THEN /\ resp' = [resp EXCEPT ![t] = ErrorResponse(v.exc)]
                   /\ pc' = [pc EXCEPT ![t] = "done"]
              ELSE IF r.kind = "save" /\ ~r.client_download
                   THEN /\ resp' = resp
                        /\ pc' = [pc EXCEPT ![t] = "write"]
                   ELSE /\ resp' = [resp EXCEPT ![t] = [status |-> 200, body |-> v.bytes]]
                        /\ pc' = [pc EXCEPT ![t] = "done"]
    /\ UNCHANGED <<svs_dir, max_pixels, slide_cache, handles, save_dir, req, slide>>

\* save_region, lines 218-231: write image_bytes to save_dir/save_filename
SaveRegion(t) ==
    /\ pc[t] = "write"
    /\ save_dir' = MapPut(save_dir, PngName(req[t].save_filename), ret[t].bytes)
    /\ resp' = [resp EXCEPT ![t] = [status |-> 200,
                   body |-> [type |-> "json", path |-> PngName(req[t].save_filename)]]]
    /\ pc' = [pc EXCEPT ![t] = "done"]
    /\ UNCHANGED <<svs_dir, max_pixels, slide_cache, handles, req, slide, loc, ret>>

\* get_slide_info, lines 78-93, and the route's response
GetSlideInfo(t) ==
    /\ pc[t] = "info"
    /\ LET v == [type |-> "json", filename |-> req[t].filename,
                 levels |-> LevelDownsamples(slide[t])]
       IN  /\ ret' = [ret EXCEPT ![t] = [exc |-> "none", bytes |-> v, meta |-> <<>>]]
           /\ resp' = [resp EXCEPT ![t] = [status |-> 200, body |-> v]]
    /\ pc' = [pc EXCEPT ![t] = "done"]
    /\ UNCHANGED <<svs_dir, max_pixels, slide_cache, handles, save_dir, req, slide, loc>>

\* get_thumbnail, lines 107-114, and the route's response
GetThumbnail(t) ==
    /\ pc[t] = "thumbnail"
    /\ LET v == [type |-> "thumbnail", src |-> handles[slide[t]].file]
       IN  /\ ret' = [ret EXCEPT ![t] = [exc |-> "none", bytes |-> v, meta |-> <<>>]]
           /\ resp' = [resp EXCEPT ![t] = [status |-> 200, body |-> v]]
    /\ pc' = [pc EXCEPT ![t] = "done"]
    /\ UNCHANGED <<svs_dir, max_pixels, slide_cache, handles, save_dir, req, slide, loc>>

\* the response is sent and the thread takes the next request
Finish(t) ==
    /\ pc[t] = "done"
    /\ pc' = [pc EXCEPT ![t] = "idle"]
    /\ req' = [req EXCEPT ![t] = NoReq]
    /\ slide' = [slide EXCEPT ![t] = 0]
    /\ loc' = [loc EXCEPT ![t] = NoLoc]
    /\ ret' = [ret EXCEPT ![t] = NoRet]
    /\ resp' = [resp EXCEPT ![t] = NoResp]
    /\ UNCHANGED <<svs_dir, max_pixels, slide_cache, handles, save_dir>>

\* no call of the handler is in progress
Quiet == \A t \in Threads : pc[t] \in {"idle", "done"}

\* close_all, lines 235-237.  Its caller keeps it apart from running
\* requests (app.py never calls it while serving), hence Quiet.
CloseAll ==
    /\ Quiet
    /\ DOMAIN slide_cache # {}
    /\ handles' = [h \in DOMAIN handles |->
                     IF \E n \in DOMAIN slide_cache : slide_cache[n] = h
                     THEN [handles[h] EXCEPT !.closed = TRUE]
                     ELSE handles[h]]
    /\ slide_cache' = EmptyMap
    /\ UNCHANGED <<svs_dir, max_pixels, save_dir, pc, req, slide, loc, ret, resp>>

\* _get_slide, step by step, and the end of a request
SlideStep(t) ==
    \/ GetSlideCheck(t)
    \/ GetSlideExists(t)
    \/ GetSlideOpen(t)
    \/ GetSlideInsert(t)
    \/ GetSlideReturn(t)
    \/ Finish(t)

\* no other thread is serving a request
Alone(t) == \A u \in Threads \ {t} : pc[u] = "idle"

\* no other thread is inside a call (it may still hold its result)
NoneRunning(t) == \A u \in Threads \ {t} : pc[u] \in {"idle", "done"}

(***************************************************************************)
(* Spec: the server under load.  Requests for a slide that exists and one  *)
(* that does not run on NThreads threads (app.run serves each request on   *)
(* its own thread) that interleave at every step of _get_slide.            *)
(***************************************************************************)
RaceDirs == {[n \in {"a.svs"} |-> Slide(<<One, <<2, 1>>>>)]}

RaceRequests ==
    {NameReq(k, f) : k \in {"info", "thumbnail"}, f \in {"a.svs", "none.svs"}}
    \cup {RegionReq("region", f, 1, 1) : f \in {"a.svs", "none.svs"}}

Init == InitOf(RaceDirs, {MaxPix})

Next ==
    \/ \E t \in Threads :
         \/ Request(t, RaceRequests)
         \/ SlideStep(t)
         \/ GetRegion(t)
         \/ GetSlideInfo(t)
         \/ GetThumbnail(t)
    \/ CloseAll

Spec == Init /\ [][Next]_vars

(***************************************************************************)
(* SpecServe: the routes /api/region and /api/save, one request at a time, *)
(* with parameters that pass and that fail the validation, a missing file, *)
(* a file OpenSlide rejects and regions that cannot be encoded.            *)
(***************************************************************************)
ServeDirs == {[n \in {"a.svs", "bad.svs"} |->
                 IF n = "bad.svs" THEN BadSlide ELSE Slide(tbl)] :
              tbl \in {<<One>>, <<One, <<4, 1>>>>}}

ServeRequests ==
    {RegionReq("region", f, w, 1) :
        f \in {"a.svs", "bad.svs", "none.svs"}, w \in {-1, 0, 1, MaxDim}}
    \cup {[RegionReq("region", "a.svs", 1, 1) EXCEPT !.given = Params \ {p}] :
            p \in {"filename", "x", "width"}}
    \cup {[RegionReq("save", f, w, 1) EXCEPT !.client_download = c, !.save_filename = s] :
            f \in {"a.svs", "bad.svs", "none.svs"}, w \in {0, 1, MaxDim}, c \in BOOLEAN,
            s \in {"out", "out.png"}}
    \cup {[RegionReq("save", "a.svs", 1, 1) EXCEPT !.given = g] :
            g \in {{}, Params \ {"save_filename"}}}

InitServe == InitOf(ServeDirs, 1..MaxPix)

NextServe ==
    \/ \E t \in Threads :
         \/ Alone(t) /\ Request(t, ServeRequests)
         \/ SlideStep(t)
         \/ GetRegion(t)
         \/ SaveRegion(t)
    \/ CloseAll

SpecServe == InitServe /\ [][NextServe]_vars

(***************************************************************************)
(* SpecSeq: calls of get_region, get_slide_info, get_thumbnail and         *)
(* close_all one after the other; a caller keeps its result while the next *)
(* call runs.                                                              *)
(***************************************************************************)
SeqDirs == {[n \in {"a.svs", "b.svs"} |-> Slide(<<One, <<2, 1>>>>)]}

SeqRequests ==
    {NameReq(k, f) : k \in {"info", "thumbnail"}, f \in {"a.svs", "b.svs", "none.svs"}}
    \cup {RegionReq("region", f, w, w) :
            f \in {"a.svs", "b.svs", "none.svs"}, w \in {1, MaxDim}}

InitSeq == InitOf(SeqDirs, {MaxPix})

NextSeq ==
    \/ \E t \in Threads :
         \/ NoneRunning(t) /\ Request(t, SeqRequests)
         \/ SlideStep(t)
         \/ GetRegion(t)
         \/ GetSlideInfo(t)
         \/ GetThumbnail(t)
    \/ CloseAll

SpecSeq == InitSeq /\ [][NextSeq]_vars

(***************************************************************************)
(* SpecRegion: get_region on every level table, pixel budget and region    *)
(* size of the bounds, called by one thread.                              *)
(***************************************************************************)
RegionDirs == {[n \in {"a.svs"} |-> Slide(tbl)] : tbl \in LevelTables}

RegionRequests == {RegionReq("region", "a.svs", w, h) : w \in Dims, h \in Dims}

InitRegion == InitOf(RegionDirs, 1..MaxPix)

NextRegion ==
    \E t \in {1} :
        \/ Request(t, RegionRequests)
        \/ SlideStep(t)
        \/ GetRegion(t)

SpecRegion == InitRegion /\ [][NextRegion]_vars

(***************************************************************************)
(* Properties.                                                             *)
(***************************************************************************)
\* thread t has run the body of get_region (its locals are set)
Called(t) == loc[t] # NoLoc

\* get_region returned to thread t
Returned(t) == Called(t) /\ ret[t].exc = "none"

TableOf(t) == svs_dir[req[t].filename].level_downsamples

\* the levels of tbl whose downsample is <= max(w, h) / mp
Qualifying(tbl, w, h, mp) ==
    {i \in 0..(Len(tbl) - 1) : tbl[i + 1][1] * mp <= Max(w, h) * tbl[i + 1][2]}

HighestQualifying(tbl, w, h, mp) ==
    LET Q == Qualifying(tbl, w, h, mp)
    IN  IF Q = {} THEN 0 ELSE CHOOSE i \in Q : \A j \in Q : j <= i

FloorOf(v, ds) == CHOOSE k \in 0..v : k * ds[1] <= v * ds[2] /\ (k + 1) * ds[1] > v * ds[2]

\* C2: the longer side of output_size is <= max_pixels, and output_size is
\* (read_width, read_height) = (floor(width / ds), floor(height / ds))
\* exactly when the read block already fits max_pixels.
C2_OutputWithinBudget ==
    \A t \in Threads :
        Called(t) =>
            LET rw == FloorOf(req[t].width, loc[t].level_downsample)
                rh == FloorOf(req[t].height, loc[t].level_downsample)
                out == <<loc[t].output_width, loc[t].output_height>>
            IN  /\ loc[t].read_width = rw
                /\ loc[t].read_height = rh
                /\ Max(out[1], out[2]) <= max_pixels
                /\ Max(rw, rh) <= max_pixels => out = <<rw, rh>>
                /\ Returned(t) => ret[t].meta[3] = out /\ ret[t].bytes.size = out

\* a block larger than the budget was read and resized to fill it
C2_Witness ==
    \E t \in Threads :
        /\ Returned(t)
        /\ Max(loc[t].read_width, loc[t].read_height) > max_pixels
        /\ Max(loc[t].output_width, loc[t].output_height) = max_pixels

\* C6: the resize step never enlarges: output_width <= read_width and
\* output_height <= read_height, with equality when no resize is performed.
C6_NeverEnlarges ==
    \A t \in Threads :
        Called(t) =>
            /\ loc[t].output_width <= loc[t].read_width
            /\ loc[t].output_height <= loc[t].read_height
            /\ Max(loc[t].read_width, loc[t].read_height) <= max_pixels =>
                 /\ loc[t].output_width = loc[t].read_width
                 /\ loc[t].output_height = loc[t].read_height

\* a resize of an oblong block that shrank both of its sides
C6_Witness ==
    \E t \in Threads :
        /\ Returned(t)
        /\ loc[t].output_width < loc[t].read_width
        /\ loc[t].output_height < loc[t].read_height
        /\ loc[t].output_width # loc[t].output_height

C10_NoEmptySide ==
    \A t \in Threads :
        (Called(t) /\ req[t].width > 0 /\ req[t].height > 0 /\ max_pixels > 0) =>
            /\ loc[t].read_width >= 1
            /\ loc[t].read_height >= 1
            /\ loc[t].output_width >= 1
            /\ loc[t].output_height >= 1

\* the handles of file f that were opened and never closed
UnclosedIn(hs, f) == {h \in DOMAIN hs : hs[h].file = f /\ ~hs[h].closed}

Unclosed(f) == UnclosedIn(handles, f)

\* handle h is stored in the cache, or held by a thread about to store it
Kept(h) ==
    \/ \E n \in DOMAIN slide_cache : slide_cache[n] = h
    \/ \E t \in Threads : pc[t] = "insert" /\ slide[t] = h

\* C3: when concurrent requests make the first reference to the same source
\* name, exactly one of them opens the backing file: the file is never open
\* twice, and no opened handle is overwritten in the cache and left unclosed.
C3_SingleWinner ==
    \A f \in DOMAIN svs_dir :
        /\ Cardinality(Unclosed(f)) <= 1
        /\ \A h \in Unclosed(f) : Kept(h)

\* C4: a call with a source name that has no backing file raises the
\* not-found error and leaves the handle cache as it was: no step of such a
\* call changes the cache or opens a handle, and the call can only end in
\* FileNotFoundError.
C4_NotFoundNoMutation ==
    [][\A t \in Threads :
          (pc[t] # "idle" /\ req[t].filename \notin DOMAIN svs_dir /\ pc'[t] # pc[t]) =>
              /\ slide_cache' = slide_cache
              /\ handles' = handles
              /\ pc'[t] \in {"exists", "done", "idle"}
              /\ pc'[t] = "done" => /\ ret'[t].exc = "FileNotFoundError"
                                    /\ resp'[t].status = 404]_vars

\* get_region has raised not-found for a missing name while another name
\* sat in the cache
C4_Witness ==
    /\ slide_cache # EmptyMap
    /\ \E t \in Threads :
          /\ pc[t] = "done"
          /\ req[t].filename \notin DOMAIN svs_dir
          /\ req[t].kind = "region"
          /\ ret[t].exc = "FileNotFoundError"

\* C5: in a sequence of calls with no close_all in between, the backing
\* file of a name is opened at most once, every later call for the name
\* uses the handle the first call cached, and a call on one name never
\* changes the cache entry of another name.
C5_OpenedOnce ==
    [][/\ \A f \in DOMAIN svs_dir : Cardinality(UnclosedIn(handles', f)) <= 1
       /\ (slide_cache = EmptyMap \/ slide_cache' # EmptyMap) =>
             \A n \in DOMAIN slide_cache :
                 n \in DOMAIN slide_cache' /\ slide_cache'[n] = slide_cache[n]
       /\ \A t \in Threads :
             pc'[t] \in {"get_region", "info", "thumbnail"} =>
                 /\ slide'[t] = slide_cache'[req'[t].filename]
                 /\ UnclosedIn(handles', req'[t].filename) = {slide'[t]}]_vars

\* two calls for the same name have completed on one open of its file, while
\* the other name is cached too
C5_Witness ==
    /\ "a.svs" \in DOMAIN slide_cache
    /\ \A t \in Threads : pc[t] = "done" /\ ret[t].exc = "none"
    /\ \A t \in Threads : req[t].filename = "a.svs" /\ slide[t] = slide_cache["a.svs"]
    /\ \E t \in Threads : req[t].kind = "info"
    /\ "b.svs" \in DOMAIN slide_cache
    /\ Cardinality(Unclosed("a.svs")) = 1

SameRegion(r1, r2) ==
    /\ r1.filename = r2.filename
    /\ r1.x = r2.x
    /\ r1.y = r2.y
    /\ r1.width = r2.width
    /\ r1.height = r2.height

RegionRoute(t) == pc[t] = "done" /\ req[t].kind \in {"region", "save"}

\* the complete image of the request of thread t
CompleteImage(t) ==
    LET l == RegionLocals(TableOf(t), req[t].width, req[t].height, max_pixels)
    IN  EncodePNG(req[t].filename, req[t].x, req[t].y, l.best_level,
                  l.read_width, l.read_height, l.output_width, l.output_height)

\* the request ended in a complete image: sent, or saved and its path sent
Complete200(t) ==
    /\ resp[t].status = 200
    /\ req[t].filename \in DOMAIN svs_dir
    /\ ret[t].exc = "none"
    /\ ret[t].bytes = CompleteImage(t)
    /\ Encodable(ret[t].bytes.size[1], ret[t].bytes.size[2])
    /\ IF req[t].kind = "save" /\ ~req[t].client_download
       THEN /\ resp[t].body.type = "json"
            /\ resp[t].body.path \in DOMAIN save_dir
            /\ save_dir[resp[t].body.path] = ret[t].bytes
       ELSE resp[t].body = ret[t].bytes

NotFound404(t) ==
    /\ resp[t].status = 404
    /\ req[t].filename \notin DOMAIN svs_dir
    /\ resp[t].body = NoBytes

Failure500(t) ==
    /\ resp[t].status = 500
    /\ req[t].filename \in DOMAIN svs_dir
    /\ ret[t].exc = "Error"
    /\ resp[t].body = NoBytes

Rejected400(t) ==
    /\ resp[t].status = 400
    /\ BadRequest(req[t])
    /\ ret[t] = NoRet
    /\ resp[t].body = NoBytes

\* a file is written only by a request whose get_region returned, and holds
\* the bytes it returned
WritesOnlyAfterSuccess ==
    save_dir' # save_dir =>
        \E t \in Threads :
            /\ pc[t] = "write" /\ pc'[t] = "done"
            /\ ret[t].exc = "none"
            /\ save_dir' = MapPut(save_dir, PngName(req[t].save_filename), ret[t].bytes)

\* C8 as stated: every region request ends in a complete image (or a saved
\* file), a 404 for a name without backing file, or a 500.
C8_ThreeOutcomes ==
    \A t \in Threads :
        RegionRoute(t) => Complete200(t) \/ NotFound404(t) \/ Failure500(t)

\* C8, amended: every region request ends in exactly one of a 400 when the
\* route's validation rejects its parameters (get_region is then not
\* called), a complete image response or saved file, a 404 when the source
\* name has no backing file, or a 500 for any other failure; when
\* get_region fails no image bytes are returned and no file is written.
C8_FourOutcomes ==
    /\ [](\A t \in Threads :
            RegionRoute(t) =>
                /\ Rejected400(t) \/ Complete200(t) \/ NotFound404(t) \/ Failure500(t)
                /\ ret[t].exc \notin {"none", "pending"} =>
                     resp[t].body = NoBytes /\ resp[t].status \in {404, 500})
    /\ [][WritesOnlyAfterSuccess]_vars

\* a server-side save named "out" has answered 200 with the path of the
\* written file out.png
C8_Witness ==
    \E t \in Threads :
        /\ RegionRoute(t)
        /\ req[t].kind = "save" /\ ~req[t].client_download
        /\ req[t].save_filename = "out"
        /\ Complete200(t)
        /\ resp[t].body.path = "out.png"
====
